---- MODULE Spec2Model ----
(***************************************************************************)
(* Start-up of the Lumina headphone showcase (main.js): App.init, the      *)
(* DOM-ready wait, the capability-gated activation of GSAP animations and  *)
(* WebGL, the two error-handling levels, and the event callbacks that      *)
(* start GSAP transitions once start-up is over.                           *)
(*                                                                         *)
(* JavaScript is single threaded: after the await of waitForDOM the rest   *)
(* of init runs to completion, so host events (timeline completion, mouse  *)
(* and button events) are delivered only when init has terminated.         *)
(***************************************************************************)
EXTENDS Integers, Sequences, FiniteSets, TLC

(* ------------------------------ bounds -------------------------------- *)

\* Most transitions an event callback is let to queue on one element.
MaxPending == 2

\* .main-img elements and .buy-btn / .cart-btn elements of the page.
Images == {"img1", "img2"}
BuyButtons == {"buy-btn"}
CartButtons == {"cart-btn"}
Buttons == BuyButtons \cup CartButtons
Elements == Images \cup Buttons

\* Host signals the capability detector reads.
Memories == {1, 4, 8}
Cores == {2, 8}
Networks == {"2g", "4g"}
Widths == {1024, 1280}
ReadyStates == {"loading", "interactive", "complete"}

(* --------------------------- program constants ------------------------ *)

\* window.innerWidth > 1024 enables the mouse-follow tilt.
TiltMinWidth == 1024

(* ----------------- capability detector (runtime-controller) ----------- *)

GateNames == {"allowAnimations", "allowHeavy", "allowWebGL"}

AnimThreshold == 40
WebGLThreshold == 60
HeavyThreshold == 70

MemoryPoints(m) == IF m >= 8 THEN 40 ELSE IF m >= 4 THEN 25 ELSE 10
CorePoints(c) == IF c >= 8 THEN 30 ELSE IF c >= 4 THEN 20 ELSE 10
NetworkPoints(n) == IF n = "4g" THEN 30 ELSE IF n = "3g" THEN 15 ELSE 0

Score(s) == MemoryPoints(s.memory) + CorePoints(s.cores) + NetworkPoints(s.network)

AllDisallowed ==
  [allowAnimations |-> FALSE, allowHeavy |-> FALSE, allowWebGL |-> FALSE]

\* Reduced motion is checked first and short-circuits the scoring.
ComputeState(s) ==
  IF s.reducedMotion
  THEN [score |-> 0, decisions |-> AllDisallowed, signals |-> s]
  ELSE [score |-> Score(s),
        decisions |-> [allowAnimations |-> Score(s) >= AnimThreshold,
                       allowHeavy |-> Score(s) >= HeavyThreshold,
                       allowWebGL |-> Score(s) >= WebGLThreshold],
        signals |-> s]

SignalSets ==
  [memory : Memories, cores : Cores, network : Networks,
   reducedMotion : BOOLEAN, viewport : Widths]

(* ------------------------------ state --------------------------------- *)

VARIABLES
  pc,            \* position of App.init
  readyState,    \* document.readyState
  domPromise,    \* promise of waitForDOM: "none", "pending", "resolved", "rejected"
  resolveCalls,  \* times the promise's resolve was called
  capability,    \* the runtime controller's state, computed at module load
  runtimeState,  \* init's local snapshot, <<>> until getState returned
  renderResult,  \* what renderAllProducts did: "none", "success", "failure", "threw"
  hasGsap,       \* typeof window.gsap !== 'undefined'
  hasThree,      \* typeof window.THREE !== 'undefined'
  innerWidth,    \* window.innerWidth
  initialized,   \* this.initialized
  fallbackShown, \* document.body holds the fallback panel
  reports,       \* phases errorHandler.report was called with, in order
  calls,         \* methods and collaborators init invoked, in order
  thrown,        \* sites where an exception was raised, in order
  listeners,     \* event listeners registered: <<target, type>>
  timeline,      \* intro timeline: "none", "running", "done"
  onCompleteSet, \* the timeline has its onComplete callback
  floatStarted,  \* the infinite floating animation was started
  heavyReads,    \* values isAllowed('allowHeavy') returned, in order
  pending,       \* per element, the transitions not yet finished
  lastEvent      \* the last event callback or completion that ran

vars ==
  <<pc, readyState, domPromise, resolveCalls, capability, runtimeState,
    renderResult, hasGsap, hasThree, innerWidth, initialized, fallbackShown, reports,
    calls, thrown, listeners, timeline, onCompleteSet, floatStarted,
    heavyReads, pending, lastEvent>>

hostVars == <<readyState, hasGsap, hasThree, capability>>
gsapVars == <<listeners, timeline, onCompleteSet, floatStarted, heavyReads, pending, lastEvent>>

Has(seq, x) == \E i \in 1..Len(seq) : seq[i] = x
Count(seq, x) == Cardinality({i \in 1..Len(seq) : seq[i] = x})
IndexOf(seq, x) == CHOOSE i \in 1..Len(seq) : seq[i] = x

Terminal == {"Ready", "Failed", "Rejected"}

(* ------------------------- runtime controller ------------------------- *)

\* runtime.getState(): the state computed once at module load.
getState == capability

\* runtime.isAllowed(gate): false for a gate the state does not have.
isAllowed(gate) ==
  IF gate \in GateNames THEN capability.decisions[gate] ELSE FALSE

(* -------------------------------- GSAP -------------------------------- *)

\* gsap.to with the overwrite option lost: nothing is killed.
GsapToKeepsAll(p, targets, kind, overwrite) ==
  [e \in Elements |-> IF e \in targets THEN Append(p[e], kind) ELSE p[e]]

\* window.gsap.to(targets, {..., overwrite}): starts one transition per target;
\* overwrite: true first kills every transition of the target, the default
\* (overwrite: false) kills none.
GsapTo(p, targets, kind, overwrite) ==
  [e \in Elements |->
     IF e \in targets
     THEN Append(IF overwrite THEN <<>> ELSE p[e], kind)
     ELSE p[e]]

Without(seq, kind) == SelectSeq(seq, LAMBDA k : k # kind)

RemoveAt(seq, i) ==
  [j \in 1..(Len(seq) - 1) |-> IF j < i THEN seq[j] ELSE seq[j + 1]]

(* ------------------------------- Init --------------------------------- *)

Init ==
  /\ pc = "Uninitialized"
  /\ readyState \in ReadyStates
  /\ domPromise = "none"
  /\ resolveCalls = 0
  /\ \E s \in SignalSets :
       /\ capability = ComputeState(s)
       /\ innerWidth = s.viewport
  /\ runtimeState = <<>>
  /\ renderResult = "none"
  /\ hasGsap \in BOOLEAN
  /\ hasThree \in BOOLEAN
  /\ initialized = FALSE
  /\ fallbackShown = FALSE
  /\ reports = <<>>
  /\ calls = <<>>
  /\ thrown = <<>>
  /\ listeners = {}
  /\ timeline = "none"
  /\ onCompleteSet = FALSE
  /\ floatStarted = FALSE
  /\ heavyReads = <<>>
  /\ pending = [e \in Elements |-> <<>>]
  /\ lastEvent = "none"

(* ------------------------------ App.init ------------------------------ *)

\* A step of init that changes only the position and the logs.
Step(next, call, site) ==
  /\ pc' = next
  /\ calls' = IF call = "" THEN calls ELSE Append(calls, call)
  /\ thrown' = IF site = "" THEN thrown ELSE Append(thrown, site)

\* The readiness test without its 'interactive' operand.
ReadyOnlyWhenComplete(rs) == rs = "complete"

\* document.readyState === 'complete' || document.readyState === 'interactive'
ReadyNow(rs) == rs \in {"complete", "interactive"}

\* app.init() up to its await: waitForDOM builds the promise.
Start ==
  /\ pc = "Uninitialized"
  /\ \E outcome \in {"ok", "throw"} :
       IF outcome = "throw"
       THEN /\ Step("WaitingForDOM", "waitForDOM", "waitForDOM")
            /\ domPromise' = "rejected"
            /\ UNCHANGED <<resolveCalls, listeners>>
       ELSE /\ Step("WaitingForDOM", "waitForDOM", "")
            /\ IF ReadyNow(readyState)
               THEN /\ domPromise' = "resolved"
                    /\ resolveCalls' = resolveCalls + 1
                    /\ UNCHANGED listeners
               ELSE /\ domPromise' = "pending"
                    /\ listeners' = listeners \cup {<<"document", "DOMContentLoaded">>}
                    /\ UNCHANGED resolveCalls
  /\ UNCHANGED <<hostVars, runtimeState, renderResult, innerWidth, initialized,
                 fallbackShown, reports, timeline, onCompleteSet, floatStarted, heavyReads,
                 pending, lastEvent>>

\* The host parses the document to its end and delivers DOMContentLoaded.
DOMContentLoaded ==
  /\ pc = "WaitingForDOM"
  /\ readyState = "loading"
  /\ readyState' = "interactive"
  /\ IF <<"document", "DOMContentLoaded">> \in listeners
     THEN /\ resolveCalls' = resolveCalls + 1
          /\ domPromise' = IF domPromise = "pending" THEN "resolved" ELSE domPromise
     ELSE UNCHANGED <<resolveCalls, domPromise>>
  /\ UNCHANGED <<pc, capability, runtimeState, renderResult, hasGsap, hasThree, innerWidth,
                 initialized, fallbackShown, reports, calls, thrown, gsapVars>>

\* The user resizes the window while init waits.
Resize ==
  /\ pc = "WaitingForDOM"
  /\ domPromise = "pending"
  /\ \E w \in Widths \ {innerWidth} : innerWidth' = w
  /\ UNCHANGED <<pc, hostVars, domPromise, resolveCalls, runtimeState, renderResult,
                 initialized, fallbackShown, reports, calls, thrown, gsapVars>>

initVars == <<hostVars, domPromise, resolveCalls, innerWidth>>
doneVars == <<initVars, renderResult>>

\* The await returns, or throws the rejection into the top-level catch.
Resume ==
  /\ pc = "WaitingForDOM"
  /\ domPromise \in {"resolved", "rejected"}
  /\ Step(IF domPromise = "resolved" THEN "Detecting" ELSE "CatchTop", "", "")
  /\ UNCHANGED <<doneVars, runtimeState, initialized, fallbackShown, reports, gsapVars>>

\* const runtimeState = this.runtime.getState()
GetState ==
  /\ pc = "Detecting"
  /\ \E outcome \in {"ok", "throw"} :
       IF outcome = "ok"
       THEN /\ Step("LoadingData", "getState", "")
            /\ runtimeState' = <<getState>>
       ELSE /\ Step("CatchTop", "getState", "getState")
            /\ UNCHANGED runtimeState
  /\ UNCHANGED <<doneVars, initialized, fallbackShown, reports, gsapVars>>

\* const productData = getAllProducts()
GetAllProducts ==
  /\ pc = "LoadingData"
  /\ \E outcome \in {"ok", "throw"} :
       IF outcome = "ok"
       THEN Step("Rendering", "getAllProducts", "")
       ELSE Step("CatchTop", "getAllProducts", "getAllProducts")
  /\ UNCHANGED <<doneVars, runtimeState, initialized, fallbackShown, reports, gsapVars>>

\* The result of renderAllProducts taken without looking at success.
RenderFailedNever(result) == FALSE

\* if (!renderResult.success)
RenderFailed(result) == result # "success"

\* this.adapter.renderAllProducts({ products }), then the throw on a result
\* whose success is false.
RenderAllProducts ==
  /\ pc = "Rendering"
  /\ \E outcome \in {"success", "failure", "throw"} :
       IF outcome = "throw"
       THEN /\ Step("CatchTop", "renderAllProducts", "renderAllProducts")
            /\ renderResult' = "threw"
       ELSE /\ renderResult' = outcome
            /\ IF RenderFailed(outcome)
               THEN Step("CatchTop", "renderAllProducts", "renderResult")
               ELSE Step("AnimGate", "renderAllProducts", "")
  /\ UNCHANGED <<initVars, runtimeState, initialized, fallbackShown, reports, gsapVars>>

\* The branches of init taken without looking at the gate.
AnimationsGateIgnored(rs) == TRUE
WebGLGateIgnored(rs) == TRUE

\* if (runtimeState.decisions.allowAnimations)
AnimationsGate(rs) == rs.decisions.allowAnimations

\* if (runtimeState.decisions.allowWebGL)
WebGLGate(rs) == rs.decisions.allowWebGL

CheckAnimGate ==
  /\ pc = "AnimGate"
  /\ IF AnimationsGate(runtimeState[1])
     THEN Step("Animating", "initializeAnimations", "")
     ELSE Step("WebGLGate", "", "")
  /\ UNCHANGED <<doneVars, runtimeState, initialized, fallbackShown, reports, gsapVars>>

(* ------------------------- initializeAnimations ----------------------- *)

\* Where init goes on when initializeAnimations or initializeWebGL returns.
AfterBranch(phase) == IF phase = "animations" THEN "WebGLGate" ELSE "Scrolling"

\* A local catch that rethrows, and one that runs its try block again.
AfterLocalCatchRethrows(phase) == "CatchTop"
AfterLocalCatchRetries(phase) == IF phase = "animations" THEN "Animating" ELSE "WebGL"

\* A local catch swallows the error: the method returns normally.
AfterLocalCatch(phase) == AfterBranch(phase)

\* try { if (typeof window.gsap !== 'undefined') this.loadGSAPAnimations() ... }
InitializeAnimations ==
  /\ pc = "Animating"
  /\ IF hasGsap
     THEN Step("GsapTimeline", "loadGSAPAnimations", "")
     ELSE Step(AfterBranch("animations"), "", "")
  /\ UNCHANGED <<doneVars, runtimeState, initialized, fallbackShown, reports, gsapVars>>

\* Elements the intro timeline animates: '.buy-btn' and '.main-img' (the other
\* selectors name no element that later gets a transition).
IntroTargets == Images \cup BuyButtons

\* window.gsap.timeline(...) and its chain of .from() transitions.
LoadTimeline ==
  /\ pc = "GsapTimeline"
  /\ \E outcome \in {"ok", "throw"} :
       IF outcome = "ok"
       THEN /\ Step("GsapOnComplete", "", "")
            /\ timeline' = "running"
            /\ pending' = GsapTo(pending, IntroTargets, "intro", FALSE)
       ELSE /\ Step("CatchAnimations", "", "animations")
            /\ UNCHANGED <<timeline, pending>>
  /\ UNCHANGED <<doneVars, runtimeState, initialized, fallbackShown, reports,
                 listeners, onCompleteSet, floatStarted, heavyReads, lastEvent>>

\* introTL.eventCallback('onComplete', ...)
RegisterOnComplete ==
  /\ pc = "GsapOnComplete"
  /\ \E outcome \in {"ok", "throw"} :
       IF outcome = "ok"
       THEN /\ Step("GsapMouse", "", "")
            /\ onCompleteSet' = TRUE
       ELSE /\ Step("CatchAnimations", "", "animations")
            /\ UNCHANGED onCompleteSet
  /\ UNCHANGED <<doneVars, runtimeState, initialized, fallbackShown, reports,
                 listeners, timeline, floatStarted, heavyReads, pending, lastEvent>>

\* The tilt set up without the width test.
WideEnoughAlways(w) == TRUE

\* window.innerWidth > 1024, the left operand of the test before setupMouseInteractions.
WideEnough(w) == w > TiltMinWidth

MouseListeners == {<<"document", "mousemove">>, <<"document", "mouseleave">>}

\* if (window.innerWidth > 1024 && this.runtime.isAllowed('allowHeavy'))
\*   this.setupMouseInteractions()
SetupMouse ==
  /\ pc = "GsapMouse"
  /\ heavyReads' = IF WideEnough(innerWidth)
                   THEN Append(heavyReads, isAllowed("allowHeavy"))
                   ELSE heavyReads
  /\ IF WideEnough(innerWidth) /\ isAllowed("allowHeavy")
     THEN \E outcome \in {"ok", "throw"} :
            IF outcome = "ok"
            THEN /\ Step("GsapButtons", "setupMouseInteractions", "")
                 /\ listeners' = listeners \cup MouseListeners
            ELSE /\ Step("CatchAnimations", "setupMouseInteractions", "animations")
                 /\ UNCHANGED listeners
     ELSE /\ Step("GsapButtons", "", "")
          /\ UNCHANGED listeners
  /\ UNCHANGED <<doneVars, runtimeState, initialized, fallbackShown, reports,
                 timeline, onCompleteSet, floatStarted, pending, lastEvent>>

ButtonEvents == {"mouseenter", "mouseleave", "mousedown", "mouseup"}

\* this.setupButtonInteractions(), the last statement of loadGSAPAnimations.
SetupButtons ==
  /\ pc = "GsapButtons"
  /\ \E outcome \in {"ok", "throw"} :
       IF outcome = "ok"
       THEN /\ Step(AfterBranch("animations"), "setupButtonInteractions", "")
            /\ listeners' = listeners \cup (Buttons \X ButtonEvents)
       ELSE /\ Step("CatchAnimations", "setupButtonInteractions", "animations")
            /\ UNCHANGED listeners
  /\ UNCHANGED <<doneVars, runtimeState, initialized, fallbackShown, reports,
                 timeline, onCompleteSet, floatStarted, heavyReads, pending, lastEvent>>

\* A catch that does not call the reporter.
ReportDropped(phase) == UNCHANGED reports

\* errorHandler.report(error, { phase }) returning normally.
Report(phase) == reports' = Append(reports, phase)

\* catch (error) { errorHandler.report(error, { phase: 'animations' }) }
ReportAnimations ==
  /\ pc = "CatchAnimations"
  /\ Report("animations")
  /\ Step(AfterLocalCatch("animations"), "", "")
  /\ UNCHANGED <<doneVars, runtimeState, initialized, fallbackShown, gsapVars>>

(* --------------------------- initializeWebGL -------------------------- *)

CheckWebGLGate ==
  /\ pc = "WebGLGate"
  /\ IF WebGLGate(runtimeState[1])
     THEN Step("WebGL", "initializeWebGL", "")
     ELSE Step("Scrolling", "", "")
  /\ UNCHANGED <<doneVars, runtimeState, initialized, fallbackShown, reports, gsapVars>>

\* try { if (typeof window.THREE !== 'undefined') ... else ... }
InitializeWebGL ==
  /\ pc = "WebGL"
  /\ \E outcome \in {"ok", "throw"} :
       IF outcome = "ok"
       THEN Step(AfterBranch("webgl"), "", "")
       ELSE Step("CatchWebGL", "", "webgl")
  /\ UNCHANGED <<doneVars, runtimeState, initialized, fallbackShown, reports, gsapVars>>

\* catch (error) { errorHandler.report(error, { phase: 'webgl' }) }
ReportWebGL ==
  /\ pc = "CatchWebGL"
  /\ Report("webgl")
  /\ Step(AfterLocalCatch("webgl"), "", "")
  /\ UNCHANGED <<doneVars, runtimeState, initialized, fallbackShown, gsapVars>>

(* ---------------------- scroll, Ready and fallback -------------------- *)

\* this.initializeScroll(); this.initialized = true
InitializeScroll ==
  /\ pc = "Scrolling"
  /\ Step("Ready", "initializeScroll", "")
  /\ initialized' = TRUE
  /\ UNCHANGED <<doneVars, runtimeState, fallbackShown, reports, gsapVars>>

\* The top-level catch reporting with the tag of a local catch.
TopLevelPhaseOfAnimations == "animations"

\* { phase: 'initialization' }
TopLevelPhase == "initialization"

\* catch (error) { ...; errorHandler.report(error, { phase: 'initialization' })
ReportInitialization ==
  /\ pc = "CatchTop"
  /\ Report(TopLevelPhase)
  /\ Step("ShowFallback", "", "")
  /\ UNCHANGED <<doneVars, runtimeState, initialized, fallbackShown, gsapVars>>

\* this.showFallbackUI(error): document.body.innerHTML = fallbackHTML
ShowFallbackUI ==
  /\ pc = "ShowFallback"
  /\ Step("Failed", "showFallbackUI", "")
  /\ fallbackShown' = TRUE
  /\ UNCHANGED <<doneVars, runtimeState, initialized, reports, gsapVars>>

(* ------------------- callbacks delivered after init ------------------- *)

afterVars ==
  <<pc, hostVars, domPromise, resolveCalls, runtimeState, renderResult, innerWidth,
    initialized, fallbackShown, reports, calls, thrown, listeners>>

\* An event callback may queue a transition on these elements.
Room(targets) == \A e \in targets : Len(pending[e]) < MaxPending

\* The intro timeline ends: its transitions are over and onComplete runs,
\* if (this.runtime.isAllowed('allowHeavy')) window.gsap.to('.main-img', ...).
IntroComplete ==
  /\ pc \in Terminal
  /\ timeline = "running"
  /\ timeline' = "done"
  /\ lastEvent' = "onComplete"
  /\ LET rest == [e \in Elements |-> Without(pending[e], "intro")]
     IN IF onCompleteSet
        THEN /\ heavyReads' = Append(heavyReads, isAllowed("allowHeavy"))
             /\ floatStarted' = isAllowed("allowHeavy")
             /\ pending' = IF isAllowed("allowHeavy")
                           THEN GsapTo(rest, Images, "float", FALSE)
                           ELSE rest
        ELSE /\ pending' = rest
             /\ UNCHANGED <<heavyReads, floatStarted>>
  /\ UNCHANGED <<afterVars, onCompleteSet>>

\* document 'mousemove': gsap.to(img, { rotateY, rotateX, overwrite: true, ... })
MouseMove ==
  /\ pc \in Terminal
  /\ <<"document", "mousemove">> \in listeners
  /\ pending' = GsapTo(pending, Images, "tilt", TRUE)
  /\ lastEvent' = "mousemove"
  /\ UNCHANGED <<afterVars, timeline, onCompleteSet, floatStarted, heavyReads>>

\* document 'mouseleave': gsap.to(img, { rotateX: 0, rotateY: 0, duration: 0.5 })
DocumentMouseLeave ==
  /\ pc \in Terminal
  /\ <<"document", "mouseleave">> \in listeners
  /\ Room(Images)
  /\ pending' = GsapTo(pending, Images, "reset", FALSE)
  /\ lastEvent' = "mouseleave"
  /\ UNCHANGED <<afterVars, timeline, onCompleteSet, floatStarted, heavyReads>>

\* A button listener: gsap.to(btn, { scale, duration }). The buttons leave the
\* document with the fallback panel and get no event after it.
ButtonEvent(btn, type) ==
  /\ pc \in Terminal
  /\ ~fallbackShown
  /\ <<btn, type>> \in listeners
  /\ Room({btn})
  /\ pending' = GsapTo(pending, {btn}, "scale", FALSE)
  /\ lastEvent' = type
  /\ UNCHANGED <<afterVars, timeline, onCompleteSet, floatStarted, heavyReads>>

ButtonMouseEnter == \E btn \in Buttons : ButtonEvent(btn, "mouseenter")
ButtonMouseLeave == \E btn \in Buttons : ButtonEvent(btn, "mouseleave")
ButtonMouseDown == \E btn \in Buttons : ButtonEvent(btn, "mousedown")
ButtonMouseUp == \E btn \in Buttons : ButtonEvent(btn, "mouseup")

\* Transitions that end on their own: the intro ends with its timeline, the
\* floating animation repeats for ever.
Finite == {"tilt", "reset", "scale"}

\* The transitions one callback started on the images end together.
ImageTweensComplete ==
  /\ pc \in Terminal
  /\ \E i \in 1..(MaxPending + 1) :
       /\ \A e \in Images : i <= Len(pending[e]) /\ pending[e][i] \in Finite
       /\ pending' = [e \in Elements |->
                        IF e \in Images THEN RemoveAt(pending[e], i) ELSE pending[e]]
  /\ lastEvent' = "complete"
  /\ UNCHANGED <<afterVars, timeline, onCompleteSet, floatStarted, heavyReads>>

ButtonTweenComplete ==
  /\ pc \in Terminal
  /\ \E btn \in Buttons : \E i \in 1..Len(pending[btn]) :
       /\ pending[btn][i] \in Finite
       /\ pending' = [pending EXCEPT ![btn] = RemoveAt(pending[btn], i)]
  /\ lastEvent' = "complete"
  /\ UNCHANGED <<afterVars, timeline, onCompleteSet, floatStarted, heavyReads>>

(* -------------------------- specifications ---------------------------- *)

InitSteps ==
  \/ Start
  \/ Resume
  \/ GetState
  \/ GetAllProducts
  \/ RenderAllProducts
  \/ CheckAnimGate
  \/ InitializeAnimations
  \/ LoadTimeline
  \/ RegisterOnComplete
  \/ SetupMouse
  \/ SetupButtons
  \/ ReportAnimations
  \/ CheckWebGLGate
  \/ InitializeWebGL
  \/ ReportWebGL
  \/ InitializeScroll
  \/ ReportInitialization
  \/ ShowFallbackUI

HostEvents ==
  \/ DOMContentLoaded
  \/ Resize
  \/ IntroComplete
  \/ MouseMove
  \/ DocumentMouseLeave
  \/ ButtonMouseEnter
  \/ ButtonMouseLeave
  \/ ButtonMouseDown
  \/ ButtonMouseUp
  \/ ImageTweensComplete
  \/ ButtonTweenComplete

Next == InitSteps \/ HostEvents

Spec == Init /\ [][Next]_vars

(* --------------- start-up with an error reporter that may throw ------- *)

\* errorHandler.report throws inside the catch of initializeAnimations: the
\* exception leaves the method and reaches the try of init.
ReportAnimationsThrows ==
  /\ pc = "CatchAnimations"
  /\ Report("animations")
  /\ Step("CatchTop", "", "report:animations")
  /\ UNCHANGED <<doneVars, runtimeState, initialized, fallbackShown, gsapVars>>

\* errorHandler.report throws inside the catch of initializeWebGL.
ReportWebGLThrows ==
  /\ pc = "CatchWebGL"
  /\ Report("webgl")
  /\ Step("CatchTop", "", "report:webgl")
  /\ UNCHANGED <<doneVars, runtimeState, initialized, fallbackShown, gsapVars>>

\* errorHandler.report throws inside the catch of init: showFallbackUI is
\* skipped and the promise of init rejects.
ReportInitializationThrows ==
  /\ pc = "CatchTop"
  /\ Report(TopLevelPhase)
  /\ Step("Rejected", "", "report:initialization")
  /\ UNCHANGED <<doneVars, runtimeState, initialized, fallbackShown, gsapVars>>

ReporterThrows ==
  \/ ReportAnimationsThrows
  \/ ReportWebGLThrows
  \/ ReportInitializationThrows

NextFaulty == Next \/ ReporterThrows

SpecFaulty == Init /\ [][NextFaulty]_vars

\* The statements of init run to completion and the continuation of a settled
\* await always runs; nothing obliges the host to deliver an event.
FairSpec == Spec /\ WF_vars(InitSteps)

(* ------------------------------ properties --------------------------- *)

Invoked(m) == Has(calls, m)
Raised(site) == Has(thrown, site)
Snapshot == runtimeState[1].decisions
Before(a, b) == Invoked(a) /\ Invoked(b) /\ IndexOf(calls, a) < IndexOf(calls, b)

\* C1: when renderAllProducts returns success = false, initializeAnimations and
\* initializeWebGL are never invoked whatever the gates are, initialized stays
\* false, the failure is reported, and init ends with the fallback UI shown.
C1_RenderFailureAborts ==
  renderResult = "failure" =>
    /\ ~Invoked("initializeAnimations")
    /\ ~Invoked("initializeWebGL")
    /\ ~Invoked("initializeScroll")
    /\ ~initialized
    /\ pc \in {"CatchTop", "ShowFallback", "Failed"}
    /\ (pc = "Failed" => fallbackShown /\ reports = <<"initialization">>)

C1_Witness ==
  /\ renderResult = "failure"
  /\ pc = "Failed"
  /\ fallbackShown
  /\ Snapshot.allowAnimations
  /\ Snapshot.allowWebGL

\* C2: an exception in animation activation or in WebGL activation is reported
\* exactly once, with phase "animations" or "webgl", and aborts nothing: WebGL
\* activation (if its gate is true) and initializeScroll still run, init ends
\* with initialized = true and the fallback UI is never shown.
C2_EnhancementErrorsSwallowed ==
  /\ Count(reports, "animations") =
       (IF Raised("animations") /\ pc # "CatchAnimations" THEN 1 ELSE 0)
  /\ Count(reports, "webgl") =
       (IF Raised("webgl") /\ pc # "CatchWebGL" THEN 1 ELSE 0)
  /\ Count(thrown, "animations") <= 1
  /\ Count(thrown, "webgl") <= 1
  /\ (Raised("animations") \/ Raised("webgl")) =>
       /\ ~fallbackShown
       /\ pc \notin {"CatchTop", "ShowFallback", "Failed", "Rejected"}
       /\ (pc \in Terminal =>
             /\ pc = "Ready"
             /\ initialized
             /\ Invoked("initializeScroll")
             /\ (Snapshot.allowWebGL =>
                   Before("initializeWebGL", "initializeScroll"))
             /\ (Raised("animations") =>
                   Before("initializeAnimations", "initializeScroll")))

C2_Witness ==
  /\ pc = "Ready"
  /\ Raised("animations")
  /\ Raised("webgl")
  /\ reports = <<"animations", "webgl">>

CoreSites == {"waitForDOM", "getState", "getAllProducts", "renderAllProducts"}
CoreFailed == \E site \in CoreSites : Raised(site)

\* C3: an exception raised by waitForDOM, getState, getAllProducts or
\* renderAllProducts reaches the top-level catch: it is reported once, with phase
\* "initialization", then showFallbackUI runs; initialized is never set and no
\* later step (animations, WebGL, scroll) runs.
C3_CoreFailureFallsBack ==
  CoreFailed =>
    /\ ~initialized
    /\ ~Invoked("initializeAnimations")
    /\ ~Invoked("initializeWebGL")
    /\ ~Invoked("initializeScroll")
    /\ Len(thrown) = 1
    /\ pc \in {"WaitingForDOM", "CatchTop", "ShowFallback", "Failed"}
    /\ reports = (IF pc \in {"ShowFallback", "Failed"} THEN <<"initialization">> ELSE <<>>)
    /\ fallbackShown = (pc = "Failed")
    /\ Invoked("showFallbackUI") = (pc = "Failed")

C3_Witness ==
  /\ Raised("getState")
  /\ pc = "Failed"
  /\ fallbackShown
  /\ reports = <<"initialization">>

\* C4: initializeAnimations is invoked only if the snapshot's allowAnimations is
\* true and initializeWebGL only if its allowWebGL is true, the snapshot being
\* taken before rendering; initializeScroll runs after every successful render,
\* whatever the gates are.
C4_GatesDecideActivation ==
  /\ Invoked("initializeAnimations") => runtimeState # <<>> /\ Snapshot.allowAnimations
  /\ Invoked("initializeWebGL") => runtimeState # <<>> /\ Snapshot.allowWebGL
  /\ Invoked("renderAllProducts") => runtimeState # <<>> /\ Before("getState", "renderAllProducts")
  /\ (pc \in Terminal /\ renderResult = "success") => Invoked("initializeScroll")
  /\ (pc \in {"WebGLGate", "WebGL", "CatchWebGL", "Scrolling", "Ready"} /\ Snapshot.allowAnimations)
       => Invoked("initializeAnimations")
  /\ (pc \in {"Scrolling", "Ready"} /\ Snapshot.allowWebGL) => Invoked("initializeWebGL")

C4_Witness ==
  /\ pc = "Ready"
  /\ Invoked("initializeScroll")
  /\ Snapshot = AllDisallowed
  /\ ~Invoked("initializeAnimations")
  /\ ~Invoked("initializeWebGL")

NothingAnimated ==
  /\ timeline = "none"
  /\ ~floatStarted
  /\ ~onCompleteSet
  /\ listeners \subseteq {<<"document", "DOMContentLoaded">>}
  /\ \A e \in Elements : pending[e] = <<>>

\* C5: when reduced motion is requested the three gates are false whatever the
\* memory, cores, network and viewport are, and init activates no animation, no
\* WebGL and no heavy effect.
C5_ReducedMotionDisablesAll ==
  capability.signals.reducedMotion =>
    /\ capability.decisions = AllDisallowed
    /\ \A g \in GateNames : ~isAllowed(g)
    /\ ~Invoked("initializeAnimations")
    /\ ~Invoked("initializeWebGL")
    /\ NothingAnimated

C5_Witness ==
  /\ capability.signals.reducedMotion
  /\ capability.signals.memory = 8
  /\ capability.signals.cores = 8
  /\ capability.signals.network = "4g"
  /\ pc = "Ready"

\* The states of the start-up state machine, from the position of init.
Phase(at) ==
  CASE at = "Uninitialized" -> "Uninitialized"
    [] at = "WaitingForDOM" -> "WaitingForDOM"
    [] at = "Detecting" -> "Detecting"
    [] at \in {"LoadingData", "Rendering"} -> "Rendering"
    [] at \in {"AnimGate", "Animating", "GsapTimeline", "GsapOnComplete", "GsapMouse",
               "GsapButtons", "CatchAnimations"} -> "AnimatingIfAllowed"
    [] at \in {"WebGLGate", "WebGL", "CatchWebGL"} -> "WebGLIfAllowed"
    [] at = "Scrolling" -> "Scrolling"
    [] at = "Ready" -> "Ready"
    [] at \in {"CatchTop", "ShowFallback", "Failed"} -> "Failed"
    [] OTHER -> "Rejected"

Forward ==
  {<<"Uninitialized", "WaitingForDOM">>, <<"WaitingForDOM", "Detecting">>,
   <<"Detecting", "Rendering">>, <<"Rendering", "AnimatingIfAllowed">>,
   <<"AnimatingIfAllowed", "WebGLIfAllowed">>, <<"WebGLIfAllowed", "Scrolling">>,
   <<"Scrolling", "Ready">>}

MayFail == {"Uninitialized", "WaitingForDOM", "Detecting", "Rendering", "Scrolling"}

Transitions == Forward \cup (MayFail \X {"Failed"})

Rank(m) ==
  CASE m = "waitForDOM" -> 1
    [] m = "getState" -> 2
    [] m = "getAllProducts" -> 3
    [] m = "renderAllProducts" -> 4
    [] m = "initializeAnimations" -> 5
    [] m = "loadGSAPAnimations" -> 6
    [] m = "setupMouseInteractions" -> 7
    [] m = "setupButtonInteractions" -> 8
    [] m = "initializeWebGL" -> 9
    [] m = "initializeScroll" -> 10
    [] m = "showFallbackUI" -> 11

InOrder == \A i, j \in 1..Len(calls) : i < j => Rank(calls[i]) < Rank(calls[j])

C6_Order ==
  /\ InOrder
  /\ Invoked("getState") => domPromise = "resolved"
  /\ Invoked("renderAllProducts") => Invoked("getState") /\ runtimeState # <<>>
  /\ (Invoked("initializeAnimations") \/ Invoked("initializeWebGL")) =>
       renderResult = "success"
  /\ Phase(pc) \in {"Scrolling", "Ready"} =>
       /\ renderResult = "success"
       /\ Snapshot.allowAnimations => Invoked("initializeAnimations")
       /\ Snapshot.allowWebGL => Invoked("initializeWebGL")
       /\ Count(reports, "animations") = Count(thrown, "animations")
       /\ Count(reports, "webgl") = Count(thrown, "webgl")
  /\ initialized = (pc = "Ready")
  /\ initialized => Invoked("initializeScroll")
  /\ fallbackShown => pc = "Failed" /\ ~initialized
  /\ (Raised("animations") \/ Raised("webgl")) => Phase(pc) # "Failed"

\* C6: init moves Uninitialized -> WaitingForDOM -> Detecting -> Rendering ->
\* AnimatingIfAllowed -> WebGLIfAllowed -> Scrolling -> Ready and in no other
\* order: detection only once the DOM is ready, rendering only after detection,
\* activation only after a successful render, scroll only once both branches
\* are over, Ready only after scroll; a state goes to Failed only from outside
\* the two IfAllowed branches, whose failures are swallowed.
C6_StateMachine ==
  /\ []C6_Order
  /\ [][Phase(pc') = Phase(pc) \/ <<Phase(pc), Phase(pc')>> \in Transitions]_vars

C6_Witness ==
  /\ pc = "Ready"
  /\ Raised("webgl")
  /\ calls = <<"waitForDOM", "getState", "getAllProducts", "renderAllProducts",
               "initializeAnimations", "loadGSAPAnimations", "setupMouseInteractions",
               "setupButtonInteractions", "initializeWebGL", "initializeScroll">>

StartupSteps == {calls[i] : i \in 1..Len(calls)}

HandledOnce ==
  /\ Len(reports) = Len(thrown)
  /\ thrown # <<>> => (initialized # fallbackShown)
  /\ \A m \in StartupSteps : Count(calls, m) = 1
  /\ \A ph \in {"animations", "webgl", "initialization"} : Count(reports, ph) <= 1

EventCallbacks ==
  {"mousemove", "document.mouseleave", "mouseenter", "mouseleave", "mousedown", "mouseup"}

\* C8 as stated: an event callback that starts a transition on an element first
\* cancels the pending one, so no element ever has two pending transitions.
C8_AtMostOnePending ==
  lastEvent \in EventCallbacks => \A e \in Elements : Len(pending[e]) <= 1

\* C8, amended: only the mousemove callback cancels (overwrite: true): after it
\* every product image has exactly one pending transition, the new tilt. The
\* document mouseleave and the button callbacks cancel nothing.
C8_MouseMoveOverwrites ==
  lastEvent = "mousemove" => \A e \in Images : pending[e] = <<"tilt">>

\* The timeline still runs, and its transition on the images is gone.
C8_Witness ==
  /\ lastEvent = "mousemove"
  /\ timeline = "running"
  /\ \A e \in Images : pending[e] = <<"tilt">>

C9_Safe ==
  /\ resolveCalls <= 1
  /\ ~(initialized /\ fallbackShown)
  /\ (pc = "Ready") = initialized
  /\ (pc = "Failed") = fallbackShown
  /\ domPromise = "pending" =>
       /\ pc = "WaitingForDOM"
       /\ calls = <<"waitForDOM">>
       /\ reports = <<>>
       /\ thrown = <<>>
       /\ runtimeState = <<>>
       /\ renderResult = "none"
       /\ NothingAnimated
  /\ domPromise = "pending" => readyState = "loading"
  /\ (pc = "WaitingForDOM" /\ readyState = "loading") => domPromise \in {"pending", "rejected"}

\* C9: the await of waitForDOM is the only place init waits and the promise is
\* resolved at most once. Once the document is interactive or complete init
\* ends, in exactly one of Ready (initialized) and Failed (fallback shown);
\* while the host has not signalled readiness init stays in WaitingForDOM and
\* has detected, rendered, activated and reported nothing.
C9_DomWait ==
  /\ []C9_Safe
  /\ (pc # "Uninitialized" /\ readyState \in {"interactive", "complete"})
       ~> (pc \in {"Ready", "Failed"})
  /\ [](pc \in {"Ready", "Failed"} => [](pc \in {"Ready", "Failed"}))

C9_Witness ==
  /\ pc = "Ready"
  /\ <<"document", "DOMContentLoaded">> \in listeners
  /\ resolveCalls = 1

TiltRegistered == MouseListeners \cap listeners # {}

\* C10: the tilt listeners are registered only if allowAnimations, GSAP, allowHeavy
\* and a viewport wider than 1024 all hold, the floating animation starts only
\* if allowAnimations, GSAP and allowHeavy hold; every read of allowHeavy gives
\* the same value, so the two are never enabled under different gate values;
\* without GSAP nothing is animated and nothing is reported.
C10_HeavyEffectsDoublyGated ==
  /\ TiltRegistered =>
       /\ Snapshot.allowAnimations
       /\ hasGsap
       /\ capability.decisions.allowHeavy
       /\ innerWidth > TiltMinWidth
       /\ MouseListeners \subseteq listeners
  /\ floatStarted =>
       /\ Snapshot.allowAnimations
       /\ hasGsap
       /\ capability.decisions.allowHeavy
       /\ timeline = "done"
  /\ \A i, j \in 1..Len(heavyReads) : heavyReads[i] = heavyReads[j]
  /\ Len(heavyReads) <= 2
  /\ (TiltRegistered /\ timeline = "done" /\ onCompleteSet) => floatStarted
  /\ (floatStarted /\ innerWidth > TiltMinWidth /\ ~Raised("animations")) => TiltRegistered
  /\ ~hasGsap => NothingAnimated /\ ~Raised("animations") /\ ~Has(reports, "animations")

C10_Witness ==
  /\ TiltRegistered
  /\ floatStarted
  /\ heavyReads = <<TRUE, TRUE>>

====
